---- MODULE Spec2Model ----
(***************************************************************************)
(* Real-time distribution and strategy-execution core of                   *)
(* python_backend/main.py: ConnectionManager, FyersAPI.get_market_data,    *)
(* RiskManager.validate_trade, RealTimeDataTask and websocket_endpoint.    *)
(*                                                                         *)
(* The process is a single asyncio event loop: code between two awaits     *)
(* that really suspend runs atomically, so every action below is one such  *)
(* stretch of code.                                                        *)
(***************************************************************************)
EXTENDS Integers, Sequences, FiniteSets, TLC

\* ------------------------------------------------------------------ bounds
\* live client connections in one behaviour
NumConns == 2
\* client events (connect, message, disconnect) in one behaviour
MaxEvents == 4

Conns == 1..NumConns
Symbols == {"NIFTY", "BANKNIFTY"}
LiveQuotes == {"q1", "q2"}
MockQuote == "mock"
NoQuote == "none"

VARIABLES
    \* ConnectionManager
    active_connections,   \* List[WebSocket]
    subscriptions,        \* Dict[str, List[WebSocket]]: a function, DOMAIN = keys
    \* RealTimeDataTask
    running,
    subscribed_symbols,
    \* websocket_endpoint, one handler per connection:
    \* "new" (not yet accepted), "open" (in the receive loop),
    \* "closed" (left through WebSocketDisconnect),
    \* "crashed" (left through an exception it does not catch)
    handler,
    events,               \* client events handled so far (bounds the run)
    \* FyersAPI / redis
    fyers,                \* TRUE once initialize() has run (self.fyers is set)
    cache,                \* redis key market_data:<symbol>, NoQuote when absent
    \* _update_market_data task
    pollPc,               \* "none" (no task yet), "sleep", "send", "stopped"
    pollData,             \* the (symbol, market_data) items still to broadcast
    bcast,                \* the broadcast in progress
    \* history (not program state)
    wants,                \* per connection: symbols whose last message was
                          \* subscribe, with no disconnect since
    ever,                 \* per connection: symbols it has ever subscribed to
    tick,                 \* what the current poller tick has done so far
    callSubs,             \* connections of the broadcast in progress that
                          \* were subscribed to its symbol when it was called
    lastSend,             \* the send_text the last step made, if it made one
    failed,               \* connections a send_text of a broadcast to which
                          \* has raised, and whose handler has not ended since
    lastMsg,              \* the client message the last step handled, if any
    \* sqlite table strategies: id -> [symbol, code, status, max_position_size]
    strategies,
    \* _execute_active_strategies task
    schedPc,              \* "none", "sleep", "exec", "validate", "submit",
                          \* "stopped", "hung" (inside a call that never returns)
    active_strategies,    \* rows of the SELECT still to run in this tick
    signal,               \* the result dict given to _process_strategy_signal
    account_info,         \* what get_account_info returned for it
    \* history (not program state)
    sig,                  \* life of the last signal produced
    fails,                \* per strategy: consecutive failed executions
    lastPlace,            \* the last fyers_api.place_order call and its caller
    inflight,             \* per strategy: executions begun and not yet over
    \* RiskManager.validate_trade applied to drawn inputs
    vt_account, vt_amount, vt_percent, vt_result,
    \* redis expiry, where time is counted
    cacheTtl,             \* per symbol: clock ticks its key has left, 0 when absent
    \* history (not program state)
    cacheAge,             \* per symbol: clock ticks since its key was set
    lastGet               \* what the get_market_data call of the last step did

hubVars == <<active_connections, subscriptions, running, subscribed_symbols,
             handler, events, fyers, cache, pollPc, pollData, bcast,
             wants, ever, tick, callSubs, lastSend, failed, lastMsg>>

schedVars == <<strategies, schedPc, active_strategies, signal, account_info,
               sig, fails, lastPlace, inflight>>

riskVars == <<vt_account, vt_amount, vt_percent, vt_result>>

cacheVars == <<cacheTtl, cacheAge, lastGet>>

vars == <<hubVars, schedVars, riskVars, cacheVars>>

\* ------------------------------------------------------------ list helpers
\* list.remove(x): drops the first occurrence
RECURSIVE Remove(_, _)
Remove(seq, x) ==
    IF seq = <<>> THEN <<>>
    ELSE IF Head(seq) = x THEN Tail(seq)
    ELSE <<Head(seq)>> \o Remove(Tail(seq), x)

Range(seq) == {seq[i] : i \in DOMAIN seq}

\* every ordering of a finite set, as list(set) may produce
Orderings(S) ==
    {q \in [1..Cardinality(S) -> S] : \A i, j \in 1..Cardinality(S) : i # j => q[i] # q[j]}

\* -------------------------------------------------------- ConnectionManager
\* disconnect(websocket): the new (active_connections, subscriptions)
disconnect_ActiveOnly(ac, subs, ws) ==
    [ac   |-> IF ws \in Range(ac) THEN Remove(ac, ws) ELSE ac,
     subs |-> subs]

disconnect(ac, subs, ws) ==
    [ac   |-> IF ws \in Range(ac) THEN Remove(ac, ws) ELSE ac,
     subs |-> [k \in DOMAIN subs |->
                  IF ws \in Range(subs[k]) THEN Remove(subs[k], ws) ELSE subs[k]]]

\* subscribe_to_symbol(websocket, symbol): the new subscriptions
subscribe_to_symbol_Append(subs, ws, symbol) ==
    IF symbol \in DOMAIN subs THEN [subs EXCEPT ![symbol] = Append(@, ws)]
    ELSE [k \in DOMAIN subs \cup {symbol} |->
             IF k = symbol THEN <<ws>> ELSE subs[k]]

subscribe_to_symbol(subs, ws, symbol) ==
    LET withKey == IF symbol \in DOMAIN subs THEN subs
                   ELSE [k \in DOMAIN subs \cup {symbol} |->
                            IF k = symbol THEN <<>> ELSE subs[k]]
    IN  IF ws \in Range(withKey[symbol]) THEN withKey
        ELSE [withKey EXCEPT ![symbol] = Append(@, ws)]

\* send_personal_message(message, websocket) when its one send_text call
\* succeeds (ok) or raises: the new (active_connections, subscriptions), the
\* send_text calls made, and whether an exception leaves it.
send_personal_message_NoUnregister(ac, subs, ws, ok) ==
    [ac |-> ac, subs |-> subs, sends |-> 1, raised |-> FALSE]

send_personal_message(ac, subs, ws, ok) ==
    LET d == IF ok THEN [ac |-> ac, subs |-> subs] ELSE disconnect(ac, subs, ws)
    IN  [ac |-> d.ac, subs |-> d.subs, sends |-> 1, raised |-> FALSE]

\* broadcast(message, symbol): the snapshot of connections it will send to
BroadcastSnapshot_All(ac, subs, symbol) == ac

BroadcastSnapshot(ac, subs, symbol) ==
    IF symbol \in DOMAIN subs THEN subs[symbol] ELSE ac

\* ------------------------------------------------- FyersAPI.get_market_data
\* What one self.fyers.quotes({"symbols": symbol}) call can do: answer
\* s = 'ok' with a quote, answer with another status, or raise.
Outcomes ==
    [kind : {"ok"}, q : LiveQuotes]
        \cup {[kind |-> "error", q |-> NoQuote], [kind |-> "raise", q |-> NoQuote]}

\* _get_mock_market_data(symbols): fabricated data for every symbol asked
_get_mock_market_data(symbols) ==
    [i \in DOMAIN symbols |-> [symbol |-> symbols[i], data |-> MockQuote]]

\* The try body's loop over symbols from position i on: data so far in acc,
\* redis in cch. raised = TRUE when a quotes() call raised.
RECURSIVE FetchLoop(_, _, _, _, _)
FetchLoop(symbols, i, out, cch, acc) ==
    IF i > Len(symbols) THEN [raised |-> FALSE, data |-> acc, cache |-> cch]
    ELSE LET s == symbols[i]
         IN  IF cch[s] # NoQuote
             THEN FetchLoop(symbols, i + 1, out, cch,
                            Append(acc, [symbol |-> s, data |-> cch[s]]))
             ELSE IF out[s].kind = "raise"
             THEN [raised |-> TRUE, data |-> acc, cache |-> cch]
             ELSE IF out[s].kind = "ok"
             THEN FetchLoop(symbols, i + 1, out,
                            [cch EXCEPT ![s] = out[s].q],
                            Append(acc, [symbol |-> s, data |-> out[s].q]))
             ELSE FetchLoop(symbols, i + 1, out, cch, acc)

\* The symbols, from position i on, for which the loop calls quotes() and
\* the call raises or answers with a status other than 'ok'
RECURSIVE FailedFetches(_, _, _, _)
FailedFetches(symbols, i, out, cch) ==
    IF i > Len(symbols) THEN {}
    ELSE LET s == symbols[i]
         IN  IF cch[s] # NoQuote \/ out[s].kind = "ok"
             THEN FailedFetches(symbols, i + 1, out, cch)
             ELSE IF out[s].kind = "raise" THEN {s}
             ELSE {s} \cup FailedFetches(symbols, i + 1, out, cch)

\* get_market_data(symbols): the items of the returned dict in insertion
\* order, the new redis content, and whether the mock fallback was taken.
get_market_data_StaysMock(symbols, init, out, cch) ==
    [data |-> _get_mock_market_data(symbols), cache |-> cch, mocked |-> TRUE]

get_market_data(symbols, init, out, cch) ==
    IF ~init
    THEN [data |-> _get_mock_market_data(symbols), cache |-> cch, mocked |-> TRUE]
    ELSE LET r == FetchLoop(symbols, 1, out, cch, <<>>)
         IN  IF r.raised
             THEN [data |-> _get_mock_market_data(symbols), cache |-> r.cache,
                   mocked |-> TRUE]
             ELSE [data |-> r.data, cache |-> r.cache, mocked |-> FALSE]

\* ------------------------------------------------------------- poller task
NoBcast == [symbol |-> "", message |-> NoQuote, connections |-> <<>>]

\* History of one tick. owed: the (connection, symbol) pairs subscribed when
\* the tick began, for a symbol the provider has data for, that have stayed
\* subscribed and not yet received the symbol's message; served: the pairs
\* that received one; dup: a pair received a second one; prev (kept while
\* the tick is sending and nothing but the poller runs): the pairs that
\* received one in the tick before; fail (kept while the tick is sending):
\* the symbols for which the tick's quotes() call failed.
\* bad: the tick's fetch met an uninitialised FyersAPI or a failing quotes()
\* call; outage (kept as prev is): the tick before was such a tick.
NoTick == [ran |-> FALSE, owed |-> {}, served |-> {}, dup |-> FALSE, prev |-> {},
           fail |-> {}, bad |-> FALSE, outage |-> FALSE]

\* by: "broadcast" or "personal" (send_personal_message)
\* sends: the send_text calls made for the message
NoSend == [by |-> "", conn |-> 0, symbol |-> "", ok |-> FALSE, sub |-> FALSE,
           sends |-> 0]

\* again: a subscribe for a symbol the connection was already listed under
NoMsg == [conn |-> 0, type |-> "", symbol |-> "", again |-> FALSE]

Subscribers(w, s) == {c \in Conns : s \in w[c]}

\* broadcast() returns at once for an empty snapshot: the for loop over
\* data.items() goes on to the next item without suspending.
RECURSIVE SkipEmpty(_, _, _)
SkipEmpty(items, ac, subs) ==
    IF items = <<>> THEN <<>>
    ELSE IF BroadcastSnapshot(ac, subs, Head(items).symbol) = <<>>
    THEN SkipEmpty(Tail(items), ac, subs)
    ELSE items

\* The for loop of _update_market_data from `items` on, up to the first
\* send_text it awaits (pc "send") or to asyncio.sleep (pc "sleep").
PollLoop_NoAwait(items, ac, subs) ==
    LET rest == SkipEmpty(items, ac, subs)
    IN  IF rest = <<>>
        THEN [pc |-> "sleep", data |-> <<>>, bcast |-> NoBcast]
        ELSE [pc    |-> "sleep",
              data  |-> Tail(rest),
              bcast |-> [symbol      |-> Head(rest).symbol,
                         message     |-> Head(rest).data,
                         connections |-> BroadcastSnapshot(ac, subs, Head(rest).symbol)]]

PollLoop(items, ac, subs) ==
    LET rest == SkipEmpty(items, ac, subs)
    IN  IF rest = <<>>
        THEN [pc |-> "sleep", data |-> <<>>, bcast |-> NoBcast]
        ELSE [pc    |-> "send",
              data  |-> Tail(rest),
              bcast |-> [symbol      |-> Head(rest).symbol,
                         message     |-> Head(rest).data,
                         connections |-> BroadcastSnapshot(ac, subs, Head(rest).symbol)]]

\* Whether get_market_data has data for symbol s if asked for it alone
ProviderHas(s, init, out, cch) ==
    get_market_data(<<s>>, init, out, cch).data # <<>>

\* ----------------------------------------------------------------- actions
started == pollPc # "none"

\* The event loop can run a task or a handler: no synchronous call that
\* never returns is holding it.
LoopFree == schedPc # "hung"

ForgetPrev == [tick EXCEPT !.prev = {}, !.outage = FALSE]

\* The history of a finished tick is dropped at the first event after it.
TickAfterEvent(gone) ==
    IF pollPc = "sleep" THEN NoTick ELSE [tick EXCEPT !.owed = @ \ gone, !.prev = {}, !.outage = FALSE]

HubInit ==
    /\ active_connections = <<>>
    /\ subscriptions = <<>>
    /\ running = FALSE
    /\ subscribed_symbols = {}
    /\ handler = [c \in Conns |-> "new"]
    /\ events = 0
    /\ fyers = FALSE
    /\ cache = [s \in Symbols |-> NoQuote]
    /\ pollPc = "none"
    /\ pollData = <<>>
    /\ bcast = NoBcast
    /\ wants = [c \in Conns |-> {}]
    /\ ever = [c \in Conns |-> {}]
    /\ tick = NoTick
    /\ callSubs = {}
    /\ lastSend = NoSend
    /\ failed = {}
    /\ lastMsg = NoMsg

\* lifespan startup: RealTimeDataTask.start()
Start ==
    /\ pollPc = "none"
    /\ running' = TRUE
    /\ pollPc' = "sleep"
    /\ lastSend' = NoSend
    /\ lastMsg' = NoMsg
    /\ UNCHANGED failed
    /\ UNCHANGED <<active_connections, subscriptions, subscribed_symbols, handler, events,
                   fyers, cache, pollData, bcast, wants, ever, tick, callSubs>>
    /\ UNCHANGED <<strategies, active_strategies, signal, account_info, sig, fails, lastPlace,
                   inflight,
                   riskVars, cacheVars>>
    /\ schedPc' = "sleep"

\* lifespan shutdown: RealTimeDataTask.stop()
Stop ==
    /\ started /\ running
    /\ LoopFree
    /\ running' = FALSE
    /\ lastSend' = NoSend
    /\ lastMsg' = NoMsg
    /\ UNCHANGED failed
    /\ tick' = ForgetPrev
    /\ UNCHANGED <<active_connections, subscriptions, subscribed_symbols, handler, events,
                   fyers, cache, pollPc, pollData, bcast, wants, ever, callSubs>>
    /\ UNCHANGED <<schedVars, riskVars, cacheVars>>

\* /auth/login with auth_mode "fyers": fyers_api.initialize(token)
Login ==
    /\ started /\ ~fyers
    /\ LoopFree
    /\ fyers' = TRUE
    /\ lastSend' = NoSend
    /\ lastMsg' = NoMsg
    /\ UNCHANGED failed
    /\ tick' = ForgetPrev
    /\ UNCHANGED <<active_connections, subscriptions, running, subscribed_symbols,
                   handler, events, cache, pollPc, pollData, bcast, wants, ever, callSubs>>
    /\ UNCHANGED <<schedVars, riskVars, cacheVars>>

\* redis drops market_data:<symbol> when its one-second expiry has passed
CacheExpire(s) ==
    /\ cache[s] # NoQuote
    /\ cache' = [cache EXCEPT ![s] = NoQuote]
    /\ lastSend' = NoSend
    /\ lastMsg' = NoMsg
    /\ UNCHANGED failed
    /\ tick' = ForgetPrev
    /\ UNCHANGED <<active_connections, subscriptions, running, subscribed_symbols,
                   handler, events, fyers, pollPc, pollData, bcast, wants, ever, callSubs>>
    /\ UNCHANGED <<schedVars, riskVars, cacheVars>>

\* websocket_endpoint: manager.connect(websocket)
Connect(c) ==
    /\ started /\ handler[c] = "new"
    /\ LoopFree
    /\ events < MaxEvents
    /\ events' = events + 1
    /\ handler' = [handler EXCEPT ![c] = "open"]
    /\ active_connections' = Append(active_connections, c)
    /\ tick' = TickAfterEvent({})
    /\ lastSend' = NoSend
    /\ lastMsg' = NoMsg
    /\ UNCHANGED failed
    /\ UNCHANGED <<subscriptions, running, subscribed_symbols, fyers, cache,
                   pollPc, pollData, bcast, wants, ever, callSubs>>
    /\ UNCHANGED <<schedVars, riskVars, cacheVars>>

\* websocket_endpoint receives {"type": "subscribe", "symbol": s}
RecvSubscribe(c, s) ==
    /\ handler[c] = "open"
    /\ LoopFree
    /\ events < MaxEvents
    /\ events' = events + 1
    /\ subscriptions' = subscribe_to_symbol(subscriptions, c, s)
    /\ subscribed_symbols' = subscribed_symbols \cup {s}
    /\ wants' = [wants EXCEPT ![c] = @ \cup {s}]
    /\ ever' = [ever EXCEPT ![c] = @ \cup {s}]
    /\ tick' = TickAfterEvent({})
    /\ lastSend' = NoSend
    /\ lastMsg' = [conn |-> c, type |-> "subscribe", symbol |-> s,
                   again |-> s \in DOMAIN subscriptions /\ c \in Range(subscriptions[s])]
    /\ UNCHANGED failed
    /\ UNCHANGED <<active_connections, running, handler, fyers, cache,
                   pollPc, pollData, bcast, callSubs>>
    /\ UNCHANGED <<schedVars, riskVars, cacheVars>>

\* websocket_endpoint receives {"type": "unsubscribe", "symbol": s}
RecvUnsubscribe(c, s) ==
    /\ handler[c] = "open"
    /\ LoopFree
    /\ events < MaxEvents
    /\ events' = events + 1
    /\ subscribed_symbols' = subscribed_symbols \ {s}
    /\ wants' = [wants EXCEPT ![c] = @ \ {s}]
    /\ UNCHANGED ever
    /\ tick' = TickAfterEvent({<<c, s>>})
    /\ lastSend' = NoSend
    /\ lastMsg' = [conn |-> c, type |-> "unsubscribe", symbol |-> s, again |-> FALSE]
    /\ UNCHANGED failed
    /\ UNCHANGED <<active_connections, subscriptions, running, handler, fyers,
                   cache, pollPc, pollData, bcast, callSubs>>
    /\ UNCHANGED <<schedVars, riskVars, cacheVars>>

\* receive_text raises WebSocketDisconnect: manager.disconnect(websocket)
ClientDisconnect(c) ==
    /\ handler[c] = "open"
    /\ LoopFree
    /\ events < MaxEvents
    /\ events' = events + 1
    /\ handler' = [handler EXCEPT ![c] = "closed"]
    /\ LET d == disconnect(active_connections, subscriptions, c)
       IN  /\ active_connections' = d.ac
           /\ subscriptions' = d.subs
    /\ wants' = [wants EXCEPT ![c] = {}]
    /\ UNCHANGED ever
    /\ tick' = TickAfterEvent({c} \X Symbols)
    /\ lastSend' = NoSend
    /\ lastMsg' = NoMsg
    /\ failed' = failed \ {c}
    /\ UNCHANGED <<running, subscribed_symbols, fyers, cache,
                   pollPc, pollData, bcast, callSubs>>
    /\ UNCHANGED <<schedVars, riskVars, cacheVars>>

\* websocket_endpoint receives text that json.loads rejects: the
\* JSONDecodeError branch answers "Invalid JSON format" through
\* send_personal_message, and the receive loop goes on.
RecvInvalidJson(c, ok) ==
    /\ handler[c] = "open"
    /\ LoopFree
    /\ events < MaxEvents
    /\ events' = events + 1
    /\ LET r == send_personal_message(active_connections, subscriptions, c, ok)
       IN  /\ active_connections' = r.ac
           /\ subscriptions' = r.subs
           /\ handler' = [handler EXCEPT ![c] = IF r.raised THEN "crashed" ELSE @]
           /\ lastSend' = [by |-> "personal", conn |-> c, symbol |-> "", ok |-> ok,
                           sub |-> FALSE, sends |-> r.sends]
    /\ wants' = IF ok THEN wants ELSE [wants EXCEPT ![c] = {}]
    /\ UNCHANGED ever
    /\ tick' = TickAfterEvent(IF ok THEN {} ELSE {c} \X Symbols)
    /\ lastMsg' = [conn |-> c, type |-> "invalid_json", symbol |-> "", again |-> FALSE]
    /\ UNCHANGED failed
    /\ UNCHANGED <<running, subscribed_symbols, fyers, cache,
                   pollPc, pollData, bcast, callSubs>>
    /\ UNCHANGED <<schedVars, riskVars, cacheVars>>

\* websocket_endpoint receives JSON that is not an object (message.get
\* raises AttributeError), or a subscribe whose symbol is a list or an object
\* (the dict lookup raises TypeError): neither except clause catches it, the
\* handler ends without manager.disconnect and the server closes the socket.
RecvNonObject(c) ==
    /\ handler[c] = "open"
    /\ LoopFree
    /\ events < MaxEvents
    /\ events' = events + 1
    /\ handler' = [handler EXCEPT ![c] = "crashed"]
    /\ wants' = [wants EXCEPT ![c] = {}]
    /\ UNCHANGED ever
    /\ tick' = TickAfterEvent({c} \X Symbols)
    /\ lastSend' = NoSend
    /\ failed' = failed \ {c}
    /\ lastMsg' = [conn |-> c, type |-> "non_object", symbol |-> "", again |-> FALSE]
    /\ UNCHANGED <<active_connections, subscriptions, running, subscribed_symbols,
                   fyers, cache, pollPc, pollData, bcast, callSubs>>
    /\ UNCHANGED <<schedVars, riskVars, cacheVars>>

\* What the quotes() calls of one tick answer: only an initialised FyersAPI
\* makes them.
TickOutcomes ==
    IF fyers THEN [Symbols -> Outcomes]
    ELSE {[s \in Symbols |-> [kind |-> "raise", q |-> NoQuote]]}

\* _update_market_data wakes from asyncio.sleep: the loop test, the fetch,
\* and the for loop up to its first awaited send.
PollerWake ==
    /\ pollPc = "sleep"
    /\ LoopFree
    /\ lastSend' = NoSend
    /\ lastMsg' = NoMsg
    /\ UNCHANGED failed
    /\ IF ~running
       THEN /\ pollPc' = "stopped"
            /\ tick' = NoTick
            /\ UNCHANGED <<cache, pollData, bcast, callSubs>>
       ELSE \E out \in TickOutcomes :
              LET owed == {p \in Conns \X Symbols :
                             /\ p[2] \in wants[p[1]]
                             /\ ProviderHas(p[2], fyers, out, cache)}
              IN  IF subscribed_symbols = {}
                  THEN /\ tick' = [NoTick EXCEPT !.ran = TRUE, !.owed = owed]
                       /\ UNCHANGED <<cache, pollPc, pollData, bcast, callSubs>>
                  ELSE \E symbols \in Orderings(subscribed_symbols) :
                         LET r == get_market_data(symbols, fyers, out, cache)
                             l == PollLoop(r.data, active_connections, subscriptions)
                         IN  /\ cache' = r.cache
                             /\ pollPc' = l.pc
                             /\ pollData' = l.data
                             /\ bcast' = l.bcast
                             /\ callSubs' = Subscribers(wants, l.bcast.symbol)
                             /\ tick' = [NoTick EXCEPT !.ran = TRUE, !.owed = owed,
                                                     !.prev = IF l.pc = "send" THEN tick.served ELSE {},
                                                     !.fail = IF l.pc = "send" /\ fyers
                                                              THEN FailedFetches(symbols, 1, out, cache)
                                                              ELSE {},
                                                     !.bad = ~fyers \/ FailedFetches(symbols, 1, out, cache) # {},
                                                     !.outage = l.pc = "send" /\ tick.ran /\ tick.bad]
    /\ UNCHANGED <<active_connections, subscriptions, running, subscribed_symbols,
                   handler, events, fyers, wants, ever>>
    /\ UNCHANGED <<schedVars, riskVars, cacheVars>>

\* broadcast: one awaited connection.send_text(message), its except branch
\* when it raises, and the code after it up to the next awaited send.
BroadcastSend(ok) ==
    /\ pollPc = "send"
    /\ LoopFree
    /\ LET c    == Head(bcast.connections)
           rest == Tail(bcast.connections)
           d    == IF ok THEN [ac |-> active_connections, subs |-> subscriptions]
                   ELSE disconnect(active_connections, subscriptions, c)
           w    == IF ok THEN wants ELSE [wants EXCEPT ![c] = {}]
           p    == <<c, bcast.symbol>>
       IN  /\ ok => handler[c] = "open"
           /\ active_connections' = d.ac
           /\ subscriptions' = d.subs
           /\ wants' = w
           /\ UNCHANGED ever
           /\ lastSend' = [by |-> "broadcast", conn |-> c, symbol |-> bcast.symbol,
                           ok |-> ok, sub |-> c \in callSubs, sends |-> 1]
           /\ failed' = IF ok \/ handler[c] # "open" THEN failed ELSE failed \cup {c}
           /\ lastMsg' = NoMsg
           /\ LET last == rest = <<>> /\ PollLoop(pollData, d.ac, d.subs).pc = "sleep"
                  prev == IF last THEN {} ELSE tick.prev
                  fail == IF last THEN {} ELSE tick.fail
              IN  tick' = IF ok
                          THEN [tick EXCEPT !.owed = @ \ {p},
                                            !.served = @ \cup {p},
                                            !.dup = @ \/ p \in tick.served,
                                            !.prev = prev, !.fail = fail,
                                            !.outage = ~last /\ tick.outage]
                          ELSE [tick EXCEPT !.owed = @ \ ({c} \X Symbols),
                                            !.prev = prev, !.fail = fail,
                                            !.outage = ~last /\ tick.outage]
           /\ IF rest # <<>>
              THEN /\ bcast' = [bcast EXCEPT !.connections = rest]
                   /\ callSubs' = callSubs \ {c}
                   /\ UNCHANGED <<pollPc, pollData>>
              ELSE LET l == PollLoop(pollData, d.ac, d.subs)
                   IN  /\ pollPc' = l.pc
                       /\ pollData' = l.data
                       /\ bcast' = l.bcast
                       /\ callSubs' = Subscribers(w, l.bcast.symbol)
    /\ UNCHANGED <<running, subscribed_symbols, handler, events, fyers, cache>>
    /\ UNCHANGED <<schedVars, riskVars, cacheVars>>

HubNext ==
    \/ Start
    \/ Stop
    \/ Login
    \/ \E s \in Symbols : CacheExpire(s)
    \/ \E c \in Conns : Connect(c)
    \/ \E c \in Conns, s \in Symbols : RecvSubscribe(c, s)
    \/ \E c \in Conns, s \in Symbols : RecvUnsubscribe(c, s)
    \/ \E c \in Conns : ClientDisconnect(c)
    \/ \E c \in Conns, ok \in BOOLEAN : RecvInvalidJson(c, ok)
    \/ \E c \in Conns : RecvNonObject(c)
    \/ PollerWake
    \/ \E ok \in BOOLEAN : BroadcastSend(ok)

\* -------------------------------------------------------------- Python dicts
\* A dict is a function whose DOMAIN is its keys; d.get(k, default)
Get(d, k, default) == IF k \in DOMAIN d THEN d[k] ELSE default

\* Stands for Python's None where a number is expected (no number of the
\* model is negative).
None == 0 - 1

Min(a, b) == IF a <= b THEN a ELSE b

\* ------------------------------------------------- RiskManager.validate_trade
DefaultMaxRiskPercent == 5

\* trade_amount <= min(available_margin, balance * (max_risk_percent / 100)),
\* in hundredths so that the percentage stays exact; arithmetic on None
\* raises and the except branch answers False.
validate_trade_NoMargin(info, trade_amount, max_risk_percent) ==
    LET balance == Get(info, "balance", 0)
    IN  IF None \in {balance, trade_amount} THEN FALSE
        ELSE trade_amount * 100 <= balance * max_risk_percent

validate_trade_NoRisk(info, trade_amount, max_risk_percent) ==
    LET available_balance == Get(info, "available_margin", 0)
    IN  IF None \in {available_balance, trade_amount} THEN FALSE
        ELSE trade_amount <= available_balance

validate_trade(info, trade_amount, max_risk_percent) ==
    LET available_balance == Get(info, "available_margin", 0)
        balance            == Get(info, "balance", 0)
    IN  IF None \in {available_balance, balance, trade_amount} THEN FALSE
        ELSE trade_amount * 100
                 <= Min(available_balance * 100, balance * max_risk_percent)

\* account_info dicts: either key may be missing or hold None
Balances == {0, 1000, 100000}
Margins == {0, 4000, 80000}
Absent == 0 - 2

AccountDict(b, m) ==
    [k \in {x \in {"balance", "available_margin"} :
               (x = "balance" => b # Absent) /\ (x = "available_margin" => m # Absent)}
        |-> IF k = "balance" THEN b ELSE m]

AccountDicts ==
    {AccountDict(b, m) : b \in Balances \cup {None, Absent},
                         m \in Margins \cup {None, Absent}}

TradeAmounts == {0, 50, 1000, 4000, 5000, 5001, 6000, 90000}
RiskPercents == {5, 10}

\* _get_mock_account_info()
_get_mock_account_info == AccountDict(100000, 80000)

RiskIdle ==
    /\ vt_account = _get_mock_account_info
    /\ vt_amount = 0
    /\ vt_percent = DefaultMaxRiskPercent
    /\ vt_result = "unset"

\* validate_trade applied to the drawn inputs
ValidateTrade ==
    /\ vt_result = "unset"
    /\ vt_result' = IF validate_trade(vt_account, vt_amount, vt_percent)
                    THEN "True" ELSE "False"
    /\ UNCHANGED <<vt_account, vt_amount, vt_percent>>
    /\ UNCHANGED <<hubVars, schedVars, cacheVars>>

\* ------------------------------------------------------- strategy registry
\* rows of the strategies table in one behaviour
NumStrategies == 2

Strats == 1..NumStrategies

\* The rows drawn for the table: a custom strategy (code is set) or a
\* built-in one, active or not, with the max_position_size of its
\* risk_config.
StrategyRows ==
    {[symbol |-> "NIFTY", code |-> TRUE,  status |-> "active",   max_position_size |-> 1000],
     [symbol |-> "NIFTY", code |-> TRUE,  status |-> "active",   max_position_size |-> 50000],
     [symbol |-> "NIFTY", code |-> TRUE,  status |-> "inactive", max_position_size |-> 1000],
     [symbol |-> "NIFTY", code |-> FALSE, status |-> "active",   max_position_size |-> 1000]}

\* SELECT id, symbol, code FROM strategies WHERE status = 'active'
RECURSIVE SelectActive(_, _)
SelectActive(tbl, i) ==
    IF i > NumStrategies THEN <<>>
    ELSE (IF tbl[i].status = "active" THEN <<i>> ELSE <<>>) \o SelectActive(tbl, i + 1)

\* for ... in active_strategies: rows without code are passed over
RECURSIVE SkipNoCode(_, _)
SkipNoCode(tbl, rows) ==
    IF rows = <<>> THEN <<>>
    ELSE IF tbl[Head(rows)].code THEN rows
    ELSE SkipNoCode(tbl, Tail(rows))

\* ------------------------------------------- StrategyEngine.execute_strategy
SignalDict(side, sym, qty, price) ==
    [k \in {x \in {"signal", "symbol", "quantity", "price"} :
               /\ (x = "symbol" => sym # "")
               /\ (x = "quantity" => qty # Absent)
               /\ (x = "price" => price # Absent)}
        |-> CASE k = "signal"   -> side
              [] k = "symbol"   -> sym
              [] k = "quantity" -> qty
              [] k = "price"    -> price]

\* The dicts a strategy's execute() may return with a BUY or SELL signal:
\* symbol, quantity and price may each be missing.
SignalDicts ==
    {SignalDict(side, sym, qty, price) :
        side \in {"BUY", "SELL"}, sym \in {"", "NIFTY"},
        qty \in {Absent, 10}, price \in {Absent, 500, 6000}}

\* {"error": ...}: file not found, no execute function, or an exception
ErrorResult == [error |-> "error"]

HoldResult == [signal |-> "HOLD"]

\* What execute_strategy can do: return a dict, return whatever else the
\* strategy's execute() returned (None), or not return at all, as nothing
\* bounds the time of the call to execute().
StrategyResults ==
    [kind : {"dict"}, d : {ErrorResult, HoldResult} \cup SignalDicts]
        \cup {[kind |-> "none", d |-> ErrorResult], [kind |-> "hang", d |-> ErrorResult]}

IsFailure(result) == result.kind = "none" \/ "error" \in DOMAIN result.d

\* result.get('signal') == 'BUY' or result.get('signal') == 'SELL'
IsTradeSignal(d) == "signal" \in DOMAIN d /\ d["signal"] \in {"BUY", "SELL"}

\* ------------------------------------------------------ scheduler task
\* consecutive failed executions after which a strategy is to become 'error'
\* (fails counts no further)
FailureThreshold == 3

NoSignal == HoldResult

NoSig == [state |-> "none", sid |-> 0, approvals |-> 0, orders |-> 0,
          verdict |-> "unset"]

NoPlace == [by |-> "", placed |-> FALSE, approved |-> FALSE]

\* trade_amount = signal.get('quantity', 1) * signal.get('price', 0)
TradeAmount_PriceOnly(d) == Get(d, "price", 0)

TradeAmount(d) == Get(d, "quantity", 1) * Get(d, "price", 0)

\* get_account_info(): the broker's funds, or the mock on any failure
AccountInfos ==
    {_get_mock_account_info, AccountDict(100000, 4000), AccountDict(1000, 0)}

\* The for loop from `rows` on: the pc and rows at its next execution
SchedLoop(tbl, rows) ==
    LET rest == SkipNoCode(tbl, rows)
    IN  [pc |-> IF rest = <<>> THEN "sleep" ELSE "exec", rows |-> rest]

\* if not risk_manager.validate_trade(...): return
AfterValidate_Ignored(ok) == "submit"

AfterValidate(ok) == IF ok THEN "submit" ELSE "return"

\* await self._process_strategy_signal(strategy_id, result): the loop goes
\* on (at `after`) only when the signal's processing is over
ProcessSignal_Spawned(after) == after

ProcessSignal(after) == "validate"

\* most executions of one strategy that the count tells apart
MaxInFlight == 2

\* the loop takes up a strategy / is done with it
BeginExecution(inf, s) == [inf EXCEPT ![s] = Min(@ + 1, MaxInFlight)]

EndExecution(inf, s) == [inf EXCEPT ![s] = @ - 1]

SchedIdle ==
    /\ schedPc = "none"
    /\ active_strategies = <<>>
    /\ signal = NoSignal
    /\ account_info = _get_mock_account_info
    /\ sig = NoSig
    /\ fails = [s \in Strats |-> 0]
    /\ lastPlace = NoPlace
    /\ inflight = [s \in Strats |-> 0]

\* _execute_active_strategies wakes from asyncio.sleep: the loop test and
\* the SELECT
SchedWake ==
    /\ schedPc = "sleep"
    /\ IF ~running
       THEN /\ schedPc' = "stopped"
            /\ active_strategies' = <<>>
       ELSE LET l == SchedLoop(strategies, SelectActive(strategies, 1))
            IN  /\ schedPc' = l.pc
                /\ active_strategies' = l.rows
    /\ signal' = NoSignal
    /\ account_info' = _get_mock_account_info
    /\ sig' = NoSig
    /\ lastPlace' = NoPlace
    /\ UNCHANGED <<strategies, fails, inflight>>
    /\ UNCHANGED <<hubVars, riskVars, cacheVars>>

\* One custom strategy of the tick: get_market_data([symbol]),
\* execute_strategy, and the test of its result
ExecStrategy(result, out) ==
    /\ schedPc = "exec"
    /\ LET s == Head(active_strategies)
           r == get_market_data(<<strategies[s].symbol>>, fyers, out, cache)
           l == SchedLoop(strategies, Tail(active_strategies))
       IN  /\ cache' = r.cache
           /\ fails' = [fails EXCEPT ![s] =
                           IF result.kind = "hang" THEN @
                           ELSE IF IsFailure(result) THEN Min(@ + 1, FailureThreshold)
                           ELSE 0]
           /\ IF result.kind = "hang"
              THEN \* execute() never returns: the synchronous call holds the
                   \* event loop, and with it every task of the process
                   /\ schedPc' = "hung"
                   /\ UNCHANGED active_strategies
                   /\ signal' = NoSignal
                   /\ sig' = NoSig
                   /\ inflight' = BeginExecution(inflight, s)
              ELSE IF result.kind = "none"
              THEN \* result.get raises: the except branch, then sleep(30)
                   /\ schedPc' = "sleep"
                   /\ active_strategies' = <<>>
                   /\ signal' = NoSignal
                   /\ sig' = NoSig
                   /\ inflight' = EndExecution(BeginExecution(inflight, s), s)
              ELSE IF IsTradeSignal(result.d)
              THEN /\ schedPc' = ProcessSignal(l.pc)
                   /\ active_strategies' =
                         IF ProcessSignal(l.pc) = "validate"
                         THEN Tail(active_strategies) ELSE l.rows
                   /\ signal' = result.d
                   /\ sig' = [NoSig EXCEPT !.state = "produced", !.sid = s]
                   /\ inflight' = BeginExecution(inflight, s)
              ELSE /\ schedPc' = l.pc
                   /\ active_strategies' = l.rows
                   /\ signal' = NoSignal
                   /\ sig' = NoSig
                   /\ inflight' = EndExecution(BeginExecution(inflight, s), s)
    /\ account_info' = _get_mock_account_info
    /\ lastPlace' = NoPlace
    /\ UNCHANGED strategies
    /\ UNCHANGED <<active_connections, subscriptions, running, subscribed_symbols,
                   handler, events, fyers, pollPc, pollData, bcast, wants, ever, tick,
                   callSubs, lastSend, failed, lastMsg>>
    /\ UNCHANGED <<riskVars, cacheVars>>

\* _process_strategy_signal up to the risk check: get_account_info,
\* trade_amount, validate_trade
ValidateSignal(acct) ==
    /\ schedPc = "validate"
    /\ LET ok == validate_trade(acct, TradeAmount(signal), DefaultMaxRiskPercent)
           l  == SchedLoop(strategies, active_strategies)
       IN  /\ account_info' = acct
           /\ IF AfterValidate(ok) = "submit"
              THEN /\ schedPc' = "submit"
                   /\ UNCHANGED active_strategies
                   /\ sig' = [sig EXCEPT !.state = "approved",
                                         !.approvals = @ + (IF ok THEN 1 ELSE 0),
                                         !.verdict = IF ok THEN "True" ELSE "False"]
                   /\ UNCHANGED inflight
              ELSE /\ schedPc' = l.pc
                   /\ active_strategies' = l.rows
                   /\ sig' = [sig EXCEPT !.state = "discarded", !.verdict = "False"]
                   /\ inflight' = EndExecution(inflight, sig.sid)
    /\ lastPlace' = NoPlace
    /\ UNCHANGED <<strategies, signal, fails>>
    /\ UNCHANGED <<hubVars, riskVars, cacheVars>>

\* _process_strategy_signal after approval: fyers_api.place_order(...), or
\* the KeyError of signal['symbol'] / signal['quantity'] caught by its except
SubmitSignal ==
    /\ schedPc = "submit"
    /\ LET l == SchedLoop(strategies, active_strategies)
       IN  /\ schedPc' = l.pc
           /\ active_strategies' = l.rows
    /\ IF {"symbol", "quantity"} \subseteq DOMAIN signal
       THEN /\ sig' = [sig EXCEPT !.state = "submitted", !.orders = @ + 1]
            /\ lastPlace' = [by |-> "scheduler", placed |-> TRUE,
                             approved |-> sig.verdict = "True"]
       ELSE /\ sig' = [sig EXCEPT !.state = "failed"]
            /\ lastPlace' = NoPlace
    /\ inflight' = EndExecution(inflight, sig.sid)
    /\ UNCHANGED <<strategies, signal, account_info, fails>>
    /\ UNCHANGED <<hubVars, riskVars, cacheVars>>

\* POST /trading/place-order: the risk check, then fyers_api.place_order
MarketOrderEstimate == 1000

PlaceOrderEndpoint(quantity, price, acct) ==
    /\ started
    /\ LoopFree
    /\ LET trade_amount ==
               quantity * (IF price # Absent /\ price # 0 THEN price ELSE MarketOrderEstimate)
           ok == validate_trade(acct, trade_amount, DefaultMaxRiskPercent)
       IN  lastPlace' = [by |-> "endpoint", placed |-> ok, approved |-> ok]
    /\ UNCHANGED <<strategies, schedPc, active_strategies, signal, account_info,
                   sig, fails, inflight>>
    /\ UNCHANGED <<hubVars, riskVars, cacheVars>>

\* ------------------------------------------------------ quote cache in time
\* redis_client.setex(f"market_data:{symbol}", 1, ...): seconds to live
CacheTtlSeconds == 1

\* clock ticks in one second
TicksPerSecond == 2

\* the time to live given to setex, in clock ticks
Expiry_Twice == 2 * CacheTtlSeconds * TicksPerSecond

Expiry == CacheTtlSeconds * TicksPerSecond

\* What a call did for one symbol: whether it was asked for, whether redis
\* held its key and for how long, the quote redis held, the quote a quotes()
\* call would answer, and the quote returned (NoQuote when none).
NoGet ==
    [s \in Symbols |->
        [asked |-> FALSE, mocked |-> FALSE, had |-> FALSE, age |-> 0,
         stored |-> NoQuote, fresh |-> NoQuote, q |-> NoQuote]]

\* data.get(symbol) of the dict returned, as a list of items
RECURSIVE Lookup(_, _)
Lookup(items, s) ==
    IF items = <<>> THEN NoQuote
    ELSE IF Head(items).symbol = s THEN Head(items).data
    ELSE Lookup(Tail(items), s)

\* the symbol lists of a request: the orderings of the non-empty subsets
SymbolLists == UNION {Orderings(S) : S \in SUBSET Symbols \ {{}}}

CacheIdle ==
    /\ cacheTtl = [s \in Symbols |-> 0]
    /\ cacheAge = [s \in Symbols |-> 0]
    /\ lastGet = NoGet

\* GET /market/live-data: fyers_api.get_market_data(symbol_list)
LiveMarketData(symbols, out) ==
    /\ started
    /\ LoopFree
    /\ LET r      == get_market_data(symbols, fyers, out, cache)
           set(s) == cache[s] = NoQuote /\ r.cache[s] # NoQuote
       IN  /\ cache' = r.cache
           /\ cacheTtl' = [s \in Symbols |-> IF set(s) THEN Expiry ELSE cacheTtl[s]]
           /\ cacheAge' = [s \in Symbols |-> IF set(s) THEN 0 ELSE cacheAge[s]]
           /\ lastGet' = [s \in Symbols |->
                   IF s \notin Range(symbols) THEN NoGet[s]
                   ELSE [asked  |-> TRUE,
                         mocked |-> r.mocked,
                         had    |-> cache[s] # NoQuote,
                         age    |-> cacheAge[s],
                         stored |-> cache[s],
                         fresh  |-> out[s].q,
                         q      |-> Lookup(r.data, s)]]
    /\ UNCHANGED <<active_connections, subscriptions, running, subscribed_symbols,
                   handler, events, fyers, pollPc, pollData, bcast, wants, ever, tick,
                   callSubs, lastSend, failed, lastMsg>>
    /\ UNCHANGED <<schedVars, riskVars>>

\* The clock advances by one tick: redis drops the keys whose time is up
ClockTick ==
    /\ \E s \in Symbols : cacheTtl[s] > 0
    /\ cacheTtl' = [s \in Symbols |-> IF cacheTtl[s] > 0 THEN cacheTtl[s] - 1 ELSE 0]
    /\ cache' = [s \in Symbols |-> IF cacheTtl[s] > 1 THEN cache[s] ELSE NoQuote]
    /\ cacheAge' = [s \in Symbols |-> IF cacheTtl[s] > 1 THEN cacheAge[s] + 1 ELSE 0]
    /\ lastGet' = NoGet
    /\ UNCHANGED <<active_connections, subscriptions, running, subscribed_symbols,
                   handler, events, fyers, pollPc, pollData, bcast, wants, ever, tick,
                   callSubs, lastSend, failed, lastMsg>>
    /\ UNCHANGED <<schedVars, riskVars>>

\* ---------------------------------------------------------- specifications
\* The application as constructed: no connection, no task, an empty
\* strategies table.
Init ==
    /\ HubInit
    /\ strategies = [s \in Strats |->
                        [symbol |-> "NIFTY", code |-> FALSE, status |-> "inactive",
                         max_position_size |-> 1000]]
    /\ SchedIdle
    /\ RiskIdle
    /\ CacheIdle

Next == HubNext

Spec == Init /\ [][Next]_vars

\* Connections, subscriptions and the poller's broadcasts while nobody has
\* logged in: FyersAPI is uninitialised and every tick carries fabricated
\* data for each subscribed symbol.
ConnNext ==
    \/ Start
    \/ Stop
    \/ \E c \in Conns : Connect(c)
    \/ \E c \in Conns, s \in Symbols : RecvSubscribe(c, s)
    \/ \E c \in Conns, s \in Symbols : RecvUnsubscribe(c, s)
    \/ \E c \in Conns : ClientDisconnect(c)
    \/ \E c \in Conns, ok \in BOOLEAN : RecvInvalidJson(c, ok)
    \/ \E c \in Conns : RecvNonObject(c)
    \/ PollerWake
    \/ \E ok \in BOOLEAN : BroadcastSend(ok)

SpecConn == Init /\ [][ConnNext]_vars

\* The poller and the provider: clients connect and subscribe (their sockets
\* take every send), someone logs in, quotes() calls fail or answer, cached
\* quotes expire.
ProviderNext ==
    \/ Start
    \/ Login
    \/ \E s \in Symbols : CacheExpire(s)
    \/ \E c \in Conns : Connect(c)
    \/ \E c \in Conns, s \in Symbols : RecvSubscribe(c, s)
    \/ PollerWake
    \/ BroadcastSend(TRUE)

SpecProvider == Init /\ [][ProviderNext]_vars

\* The scheduler over a strategies table that holds rows
SchedInit ==
    /\ HubInit
    /\ strategies \in [Strats -> StrategyRows]
    /\ SchedIdle
    /\ RiskIdle
    /\ CacheIdle

SchedNext ==
    \/ Start
    \/ SchedWake
    \/ \E result \in StrategyResults, out \in TickOutcomes : ExecStrategy(result, out)
    \/ \E acct \in AccountInfos : ValidateSignal(acct)
    \/ SubmitSignal
    \/ \E quantity \in {1, 10}, price \in {Absent, 6000}, acct \in AccountInfos :
          PlaceOrderEndpoint(quantity, price, acct)

SpecSched == SchedInit /\ [][SchedNext]_vars

\* The steps of the _execute_active_strategies task: the event loop resumes
\* a task that is ready to run.
SchedTask ==
    \/ SchedWake
    \/ \E result \in StrategyResults, out \in TickOutcomes : ExecStrategy(result, out)
    \/ \E acct \in AccountInfos : ValidateSignal(acct)
    \/ SubmitSignal

SpecSchedLive == SpecSched /\ WF_vars(SchedTask)

\* The two tasks that start() creates, side by side on the one event loop,
\* with clients that connect and subscribe and custom strategies that are
\* all active.
LoopInit ==
    /\ HubInit
    /\ strategies = [s \in Strats |->
                        [symbol |-> "NIFTY", code |-> TRUE, status |-> "active",
                         max_position_size |-> 1000]]
    /\ SchedIdle
    /\ RiskIdle
    /\ CacheIdle

\* execute() returns a HOLD, or does not return
LoopResults == {[kind |-> "dict", d |-> HoldResult], [kind |-> "hang", d |-> ErrorResult]}

\* The steps of the _update_market_data task
PollerTask ==
    \/ PollerWake
    \/ \E ok \in BOOLEAN : BroadcastSend(ok)

LoopNext ==
    \/ Start
    \/ \E c \in Conns : Connect(c)
    \/ \E c \in Conns, s \in Symbols : RecvSubscribe(c, s)
    \/ PollerWake
    \/ \E ok \in BOOLEAN : BroadcastSend(ok)
    \/ SchedWake
    \/ \E result \in LoopResults, out \in TickOutcomes : ExecStrategy(result, out)

SpecLoopLive ==
    LoopInit /\ [][LoopNext]_vars /\ WF_vars(PollerTask) /\ WF_vars(SchedTask)

\* The two tasks and the lifespan's shutdown, which may come at any point
\* where the event loop is free
StopNext ==
    \/ LoopNext
    \/ Stop

SpecStopLive ==
    LoopInit /\ [][StopNext]_vars /\ WF_vars(PollerTask) /\ WF_vars(SchedTask)

\* validate_trade over drawn inputs
RiskInit ==
    /\ HubInit
    /\ strategies = [s \in Strats |->
                        [symbol |-> "NIFTY", code |-> FALSE, status |-> "inactive",
                         max_position_size |-> 1000]]
    /\ SchedIdle
    /\ vt_account \in AccountDicts
    /\ vt_amount \in TradeAmounts
    /\ vt_percent \in RiskPercents
    /\ vt_result = "unset"
    /\ CacheIdle

RiskNext == ValidateTrade

SpecRisk == RiskInit /\ [][RiskNext]_vars

\* get_market_data called over time, with the redis expiry counted. (Spec
\* and SpecSched count no time: there a key may expire at any moment.)
CacheNext ==
    \/ Start
    \/ Login
    \/ \E symbols \in SymbolLists, out \in TickOutcomes : LiveMarketData(symbols, out)
    \/ ClockTick

SpecCache == Init /\ [][CacheNext]_vars

\* ------------------------------------------------------------------ claims
\* Symbols that an active strategy of the registry refers to
ActiveStrategySymbols ==
    {strategies[s].symbol : s \in {x \in Strats : strategies[x].status = "active"}}

\* Symbols with at least one live subscription
LiveSymbols == {s \in Symbols : Subscribers(wants, s) # {}}

\* C1: the set of symbols the poller polls (subscribed_symbols) is exactly
\* the set of symbols with at least one live subscription or at least one
\* active strategy referring to them.
C1_HotSymbolsExact ==
    subscribed_symbols = LiveSymbols \cup ActiveStrategySymbols

\* C2: a broadcast to symbol S delivers to exactly the connections
\* subscribed to S when broadcast was called: each of them is in the
\* snapshot it sends to, and no message is delivered to a connection that
\* was not subscribed at the call (it had unsubscribed before it).
C2_BroadcastExactlySubscribers ==
    /\ pollPc = "send" => callSubs \subseteq Range(bcast.connections)
    /\ (lastSend.by = "broadcast" /\ lastSend.ok) => lastSend.sub

\* C3: a connection is in subscriptions[S] if and only if its last
\* subscribe/unsubscribe message for S was subscribe and it has not
\* disconnected since.
C3_SubscribedIffLastSubscribe ==
    \A c \in Conns, s \in Symbols :
        (s \in DOMAIN subscriptions /\ c \in Range(subscriptions[s]))
            <=> s \in wants[c]

\* C4: every connection in any symbol's subscriber list is also in
\* active_connections.
C4_SubscribersAreActive ==
    \A s \in DOMAIN subscriptions :
        Range(subscriptions[s]) \subseteq Range(active_connections)

\* C5: a strategy's signal reaches fyers_api.place_order only after
\* validate_trade approved it, with exactly one approval and at most one
\* place_order call per signal; a rejected signal never reaches it. The
\* same holds of the place-order endpoint's call.
C5_OrderOnlyAfterApproval ==
    /\ sig.orders <= 1
    /\ sig.orders = 1 => (sig.verdict = "True" /\ sig.approvals = 1)
    /\ sig.verdict = "False" => sig.orders = 0
    /\ schedPc = "submit" => sig.verdict = "True"
    /\ lastPlace.placed => lastPlace.approved

\* an approved signal has been forwarded to place_order
C5_Witness ==
    /\ sig.state = "submitted" /\ sig.orders = 1
    /\ lastPlace.by = "scheduler" /\ lastPlace.placed

VtMargin == Get(vt_account, "available_margin", 0)

VtBalance == Get(vt_account, "balance", 0)

\* C6: validate_trade rejects every trade whose notional exceeds the
\* available margin, whatever the balance and the risk percentage, and
\* approves every trade within both the margin and the risk cap.
C6_MarginRejectsWithinLimitsApproves ==
    vt_result # "unset" =>
        /\ (VtMargin # None /\ vt_amount > VtMargin) => vt_result = "False"
        /\ (/\ VtMargin # None /\ VtBalance # None
            /\ vt_amount <= VtMargin
            /\ vt_amount * 100 <= VtBalance * vt_percent) => vt_result = "True"

\* a trade within the risk cap is rejected for its margin alone
C6_Witness ==
    /\ vt_result = "False"
    /\ VtMargin # None /\ VtBalance # None
    /\ vt_amount > VtMargin
    /\ vt_amount * 100 <= VtBalance * vt_percent

\* C7: validate_trade rejects every trade whose notional exceeds
\* max_risk_percent of the balance, even when the margin suffices.
C7_RiskCapRejects ==
    (/\ vt_result # "unset"
     /\ VtBalance # None
     /\ vt_amount * 100 > VtBalance * vt_percent) => vt_result = "False"

\* balance 100000, 5 %, notional 6000, margin 80000: rejected
C7_Witness ==
    /\ vt_result = "False"
    /\ VtBalance = 100000 /\ vt_percent = 5 /\ vt_amount = 6000
    /\ VtMargin = 80000

\* C8: a signal whose position size exceeds the configured maximum
\* position size of its strategy is never forwarded to place_order.
C8_MaxPositionSizeEnforced ==
    sig.orders > 0 =>
        TradeAmount(signal) <= strategies[sig.sid].max_position_size

\* C9: once a strategy has failed FailureThreshold consecutive executions
\* its status is 'error', and it is not executed again.
C9_FailingStrategyBecomesError ==
    \A s \in Strats :
        fails[s] >= FailureThreshold =>
            /\ strategies[s].status = "error"
            /\ s \notin Range(active_strategies)

\* C10: when a poller tick has run to its sleep, every connection that was
\* subscribed to S when the tick began (and stayed so, with the provider
\* having data for S) has received exactly one market_data message for S
\* in that tick.
C10_TickServesEverySubscriber ==
    (pollPc = "sleep" /\ tick.ran) => (tick.owed = {} /\ ~tick.dup)

\* Connections a broadcast's send to which has failed, or that have
\* disconnected
Gone == failed \cup {c \in Conns : handler[c] = "closed"}

\* A step in which broadcast takes the snapshot of a new call
SnapshotTaken ==
    /\ pollPc' = "send" /\ bcast' # bcast
    /\ pollPc = "sleep" \/ Len(bcast.connections) = 1

\* C11: whatever a send of a broadcast does, the broadcast goes on to the
\* remaining connections of its snapshot; and when the next broadcast takes
\* its snapshot, every connection whose send failed or that disconnected is
\* absent from active_connections and from every subscriber list.
C11_BroadcastSurvivesFailure ==
    [][/\ (pollPc = "send" /\ lastSend'.by = "broadcast"
              /\ Len(bcast.connections) > 1)
          => (pollPc' = "send" /\ bcast'.connections = Tail(bcast.connections))
       /\ SnapshotTaken =>
            \A c \in Gone' :
                /\ c \notin Range(active_connections')
                /\ \A k \in DOMAIN subscriptions' : c \notin Range(subscriptions'[k])
      ]_vars

Listed(c, ac, subs) ==
    c \in Range(ac) \/ \E k \in DOMAIN subs : c \in Range(subs[k])

\* C12: disconnect removes the connection from active_connections and from
\* every symbol's subscriber list, and a second call for the same
\* connection changes nothing; a connection whose send has just failed (so
\* that disconnect was called for it) is in none of them.
C12_UnregisterIdempotent ==
    /\ \A c \in Conns :
          LET d == disconnect(active_connections, subscriptions, c)
          IN  /\ ~Listed(c, d.ac, d.subs)
              /\ disconnect(d.ac, d.subs, c) = d
    /\ (lastSend.by # "" /\ ~lastSend.ok)
          => ~Listed(lastSend.conn, active_connections, subscriptions)

\* disconnect has been called twice for one connection: by its handler when
\* the client left in the middle of a broadcast, then by the broadcast whose
\* send to it failed
C12_Witness ==
    /\ lastSend.by = "broadcast" /\ ~lastSend.ok
    /\ handler[lastSend.conn] = "closed"

\* C13: when the send_text of send_personal_message raises, the connection
\* is removed from active_connections and from every subscriber list, the
\* send is made once only, and nothing is raised to the handler, which stays
\* in its receive loop.
C13_SendToFailureUnregisters ==
    (lastSend.by = "personal" /\ ~lastSend.ok) =>
        /\ ~Listed(lastSend.conn, active_connections, subscriptions)
        /\ lastSend.sends = 1
        /\ handler[lastSend.conn] = "open"

\* the "Invalid JSON format" answer to a registered connection, listed under
\* a symbol until then, has failed
C13_Witness ==
    /\ lastSend.by = "personal" /\ ~lastSend.ok
    /\ lastSend.conn \notin failed
    /\ \E s \in DOMAIN subscriptions :
          lastSend.conn \notin Range(subscriptions[s]) /\ s \in subscribed_symbols

NoDuplicate(seq) == Cardinality(Range(seq)) = Len(seq)

\* C14: a second subscribe of a connection to a symbol leaves subscriptions
\* as the first left it, no subscriber list holds a connection twice, and
\* so no broadcast sends a connection two copies of its message.
C14_SubscribeIdempotent ==
    /\ \A c \in Conns, s \in Symbols :
          LET once == subscribe_to_symbol(subscriptions, c, s)
          IN  subscribe_to_symbol(once, c, s) = once
    /\ \A k \in DOMAIN subscriptions : NoDuplicate(subscriptions[k])
    /\ NoDuplicate(bcast.connections)
    /\ ~tick.dup

\* a connection has sent subscribe for a symbol it was already listed under
C14_Witness ==
    /\ lastMsg.type = "subscribe" /\ lastMsg.again
    /\ lastMsg.conn \in Range(subscriptions[lastMsg.symbol])

\* C15: a malformed client message is answered with an error text sent to
\* the connection, the handler stays in its receive loop, and the connection
\* stays in active_connections (unless the answer itself could not be sent).
C15_MalformedAnsweredInBand ==
    lastMsg.type \in {"invalid_json", "non_object"} =>
        /\ lastSend.by = "personal" /\ lastSend.conn = lastMsg.conn
        /\ handler[lastMsg.conn] = "open"
        /\ lastSend.ok => lastMsg.conn \in Range(active_connections)

\* C16: a get_market_data call within the time to live (1 second) of a
\* symbol's cached quote returns that stored quote; redis holds no quote
\* whose time to live has elapsed, and a call that finds none returns what a
\* fresh quotes() call answers for the symbol, never an older quote.
C16_CacheServesWithinTtlOnly ==
    /\ \A s \in Symbols :
          cache[s] # NoQuote => cacheAge[s] < CacheTtlSeconds * TicksPerSecond
    /\ \A s \in Symbols :
          (lastGet[s].asked /\ ~lastGet[s].mocked) =>
              /\ lastGet[s].had =>
                    /\ lastGet[s].q = lastGet[s].stored
                    /\ lastGet[s].age < CacheTtlSeconds * TicksPerSecond
              /\ ~lastGet[s].had => lastGet[s].q = lastGet[s].fresh

\* one call served a quote from the cache while the provider had a newer
\* one, and fetched another symbol, whose key had expired, afresh
C16_Witness ==
    \E s, u \in Symbols :
        /\ lastGet[s].asked /\ lastGet[s].had /\ lastGet[s].age > 0
        /\ lastGet[s].fresh \notin {NoQuote, lastGet[s].stored}
        /\ lastGet[u].asked /\ ~lastGet[u].had /\ ~lastGet[u].mocked
        /\ lastGet[u].q # NoQuote
        /\ cacheAge[u] = 0 /\ cacheAge[s] > 0

\* symbols whose message of the current tick is still to be broadcast
PendingSymbols == {pollData[i].symbol : i \in DOMAIN pollData}

\* C17: the messages for a symbol reach each subscriber in tick order: the
\* poller fetches for the next tick only when every broadcast of the
\* current one has made its last send, and a tick holds one message for a
\* symbol, so no message of tick k is sent after one of tick k+1.
C17_PerSymbolTickOrder ==
    /\ pollPc # "send" => (pollData = <<>> /\ bcast = NoBcast)
    /\ pollPc = "send" =>
          /\ bcast.symbol \notin PendingSymbols
          /\ Cardinality(PendingSymbols) = Len(pollData)
          /\ \A p \in tick.served : p[2] \notin PendingSymbols

\* a connection has received a symbol's message in two successive ticks
C17_Witness ==
    \E p \in tick.served : p \in tick.prev

\* C18: in a tick where the provider fails for a symbol, no message is
\* broadcast for that symbol, and the messages broadcast for the other
\* symbols carry their fetched or cached quotes.
C18_FailedSymbolSkippedOnly ==
    (pollPc = "send" /\ tick.fail # {}) =>
        /\ bcast.symbol \notin tick.fail
        /\ PendingSymbols \cap tick.fail = {}
        /\ bcast.message # MockQuote
        /\ \A i \in DOMAIN pollData : pollData[i].data # MockQuote

\* C19: the execution of one strategy, whatever it raises or returns, sends
\* the scheduler to its sleep only when no other custom strategy remains to
\* be executed in the tick.
C19_BrokenStrategyIsolated ==
    [][(schedPc = "exec" /\ schedPc' = "sleep")
          => SkipNoCode(strategies, Tail(active_strategies)) = <<>>]_vars

\* C20: a strategy execution that does not return is abandoned: the
\* scheduler gets on with the tick and reaches its sleep, from which the
\* next tick starts.
C20_HungStrategyAbandoned ==
    (schedPc = "hung") ~> (schedPc = "sleep")

\* some connection is listed under a symbol that the poller polls
HasSubscriber ==
    \E s \in subscribed_symbols :
        s \in DOMAIN subscriptions /\ subscriptions[s] # <<>>

\* C21: while the tasks run, the poller, asleep between two ticks with a
\* subscriber to serve, starts another tick and broadcasts, whatever the
\* scheduler task is doing.
C21_PollerNeverBlocked ==
    (running /\ pollPc = "sleep" /\ HasSubscriber) ~> (pollPc = "send")

\* C22: a failing or uninitialised provider does not end the poller (its
\* loop ends only once stop() has been called), and in a tick that follows
\* one that met the failure, with the provider answering again, the
\* messages broadcast carry fetched or cached quotes.
C22_PollerSurvivesOutage ==
    /\ pollPc = "stopped" => ~running
    /\ (pollPc = "send" /\ tick.outage /\ fyers /\ tick.fail = {}) =>
          /\ bcast.message \in LiveQuotes
          /\ \A i \in DOMAIN pollData : pollData[i].data \in LiveQuotes

\* a tick that follows a tick with a failed fetch is broadcasting a quote
\* fetched from the provider
C22_Witness ==
    /\ pollPc = "send" /\ tick.outage /\ fyers /\ tick.fail = {}
    /\ bcast.message \in LiveQuotes
    /\ cache[bcast.symbol] = bcast.message

\* C23: every signal follows produced -> validated -> (approved -> submitted
\* | rejected -> discarded) and never moves back: a produced signal is next
\* approved or discarded, an approved signal is next submitted, a discarded
\* signal gets no order and no second verdict, a submitted signal gets no
\* second verdict and no second order.
C23_SignalStateMachine ==
    [][/\ sig.state = "produced" =>
              sig'.state \in {"produced", "approved", "discarded"}
       /\ sig.state = "approved" =>
              sig'.state \in {"approved", "submitted"}
       /\ sig.state = "discarded" =>
              /\ sig'.state \in {"discarded", "none", "produced"}
              /\ sig'.state = "discarded" => sig' = sig
       /\ sig.state = "submitted" =>
              /\ sig'.state \in {"submitted", "none", "produced"}
              /\ sig'.state = "submitted" => sig' = sig
      ]_vars

\* C24: at no time is more than one execution of a strategy id under way:
\* none is taken up, in this tick or a later one, before the one before it
\* is over.
C24_OneExecutionPerStrategy ==
    \A s \in Strats : inflight[s] <= 1

\* a strategy's execution is under way (its signal is being processed)
\* while another strategy of the tick is still to be executed
C24_Witness ==
    /\ schedPc \in {"validate", "submit"}
    /\ inflight[sig.sid] = 1
    /\ active_strategies # <<>>
    /\ \A s \in Strats \ {sig.sid} : inflight[s] = 0

C27_ShutdownClearsAll ==
    [][Stop =>
          /\ active_connections' = <<>>
          /\ \A k \in DOMAIN subscriptions' : subscriptions'[k] = <<>>
          /\ subscribed_symbols' = {}
      ]_vars

\* C28: a market_data message for a symbol is delivered only to connections
\* that have subscribed to that symbol at some time: every hot symbol has an
\* entry in subscriptions, entries are never deleted, so the poller's
\* broadcast never falls back to active_connections.
C28_NeverToNonSubscriber ==
    /\ subscribed_symbols \subseteq DOMAIN subscriptions
    /\ \A c \in Conns : ever[c] \subseteq DOMAIN subscriptions
    /\ pollPc = "send" =>
          /\ bcast.symbol \in DOMAIN subscriptions
          /\ \A c \in Range(bcast.connections) : bcast.symbol \in ever[c]
    /\ (lastSend.by = "broadcast" /\ lastSend.ok) =>
          lastSend.symbol \in ever[lastSend.conn]

\* a message has been delivered while another registered connection had
\* never subscribed to its symbol
C28_Witness ==
    /\ lastSend.by = "broadcast" /\ lastSend.ok
    /\ lastSend.symbol \in ever[lastSend.conn]
    /\ \E c \in Range(active_connections) : lastSend.symbol \notin ever[c]

\* C29: a connection whose websocket handler has terminated, through the
\* client's disconnect or through any exception raised while a message was
\* processed, is in neither active_connections nor any subscriber list.
C29_TerminatedHandlerUnregistered ==
    \A c \in Conns :
        handler[c] \in {"closed", "crashed"} =>
            ~Listed(c, active_connections, subscriptions)

\* C30: an order the scheduler forwards to place_order has quantity x price
\* (price 0 when the signal carries none) within both the available margin
\* and 5% of the balance of the account it was checked against; and a
\* signal with symbol and quantity but no price is never rejected: whatever
\* its quantity, it is forwarded.
C30_ForwardedWithinLimits ==
    /\ (lastPlace.by = "scheduler" /\ lastPlace.placed) =>
          /\ signal["quantity"] * Get(signal, "price", 0) * 100
                 <= account_info["available_margin"] * 100
          /\ signal["quantity"] * Get(signal, "price", 0) * 100
                 <= account_info["balance"] * DefaultMaxRiskPercent
    /\ ( /\ sig.state \in {"discarded", "submitted", "failed"}
         /\ {"symbol", "quantity"} \subseteq DOMAIN signal
         /\ "price" \notin DOMAIN signal ) =>
          /\ sig.state = "submitted"
          /\ sig.orders = 1

\* an order without price has been forwarded against an account with no
\* margin at all
C30_Witness ==
    /\ lastPlace.by = "scheduler" /\ lastPlace.placed
    /\ "price" \notin DOMAIN signal
    /\ signal["quantity"] > 1
    /\ account_info["available_margin"] = 0
====
